---------------------------- MODULE Spec2Model ----------------------------
(***************************************************************************)
(* A model of zucchini/gradescope.py: the metadata parser                  *)
(* (GradescopeMetadata), the Gradescope output document                    *)
(* (GradescopeAutograderTestOutput, GradescopeAutograderOutput and its     *)
(* from_grade / to_config_dict) and the autograder archive                 *)
(* (GradescopeAutograderZip.write_zip).                                    *)
(*                                                                         *)
(* Conventions.  A Python value that may be None is a sequence of length   *)
(* at most one: None is << >> and a value v is << v >>.  A Python object   *)
(* is the record of its instance attributes (vars(self)); a dict is a      *)
(* function whose DOMAIN is its key set.  An exact point value (a          *)
(* Fraction) is [num, den] in lowest terms; a float is its value counted   *)
(* in units of 1/FloatUnit.  A path is the sequence of its components.     *)
(***************************************************************************)
EXTENDS Integers, Sequences, FiniteSets, TLC

VARIABLES
    grade,        \* the grading_manager.Grade handed to from_grade
    gs_output,    \* None, or the GradescopeAutograderOutput from_grade returned
    config_dict,  \* None, or the dict gs_output.to_config_dict() returned
    fs,           \* the project directory write_zip reads
    dest,         \* the file at the destination path of write_zip
    zip_result,   \* "idle", or how write_zip ended: "ok" or "IOError"
    json_dict,    \* the decoded submission_metadata.json
    metadata,     \* None, or the GradescopeMetadata constructed
    meta_error    \* "idle", "ok", or the exception the constructor raised

vars == << grade, gs_output, config_dict, fs, dest, zip_result,
           json_dict, metadata, meta_error >>

gradeVars == << grade, gs_output, config_dict >>
zipVars   == << fs, dest, zip_result >>
metaVars  == << json_dict, metadata, meta_error >>

\* ------------------------------------------------------------------------
\* Bounds of the model
\* ------------------------------------------------------------------------
MaxPenalties  == 2
MaxComponents == 2
MaxParts      == 2

\* ------------------------------------------------------------------------
\* Generic helpers
\* ------------------------------------------------------------------------
None == << >>

Some(v) == << v >>

Range(s) == { s[i] : i \in DOMAIN s }

SeqsUpTo(S, n) == UNION { [1..k -> S] : k \in 0..n }

InjectiveSeqsUpTo(S, n) ==
    { s \in SeqsUpTo(S, n) : \A i, j \in DOMAIN s : s[i] = s[j] => i = j }

RECURSIVE SelectSeqIdx(_, _)
\* the indices 1..n that lie in the set keep, in increasing order
SelectSeqIdx(n, keep) ==
    IF n = 0 THEN << >>
    ELSE IF n \in keep THEN Append(SelectSeqIdx(n - 1, keep), n)
         ELSE SelectSeqIdx(n - 1, keep)

\* ------------------------------------------------------------------------
\* Numbers: Fractions in, floats out
\* ------------------------------------------------------------------------
FloatUnit == 2

Frac(n, d) == [num |-> n, den |-> d]

\* grade.to_float(x): the float nearest to the Fraction x.  The point values
\* drawn below have denominators dividing FloatUnit, so the division is exact.
to_float(x) == (x.num * FloatUnit) \div x.den

\* float(x) applied to what is already a float
float(x) == x

\* ------------------------------------------------------------------------
\* The grade handed to from_grade
\* ------------------------------------------------------------------------
PenaltyMenu ==
    { [name |-> "Late",  points_delta |-> Frac(0, 1)],
      [name |-> "Late",  points_delta |-> Frac(-1, 1)],
      [name |-> "Style", points_delta |-> Frac(1, 2)] }

PartMenu ==
    { [name |-> "Part 1", points_got |-> Frac(1, 1), points_possible |-> Frac(1, 1),
       deductions |-> << >>, log |-> ""],
      [name |-> "Part 2", points_got |-> Frac(1, 2), points_possible |-> Frac(2, 1),
       deductions |-> << "late -10%", "missing docstring" >>, log |-> "ok"],
      [name |-> "Part 3", points_got |-> Frac(0, 1), points_possible |-> Frac(3, 2),
       deductions |-> << >>, log |-> "ok"] }

ComponentNames == << "Warmup", "Homework", "Final", "Bonus" >>

ComponentName(i) == ComponentNames[((i - 1) % Len(ComponentNames)) + 1]

\* the part lists of one component: part names are unique within a component
PartLists == InjectiveSeqsUpTo(PartMenu, MaxParts)

ComponentLists ==
    { [i \in DOMAIN ps |-> [name |-> ComponentName(i), parts |-> ps[i]]] :
        ps \in SeqsUpTo(PartLists, MaxComponents) }

\* the penalty lists of a grade: each penalty is applied at most once
PenaltyLists == InjectiveSeqsUpTo(PenaltyMenu, MaxPenalties)

Scores == { Frac(5, 2) }

Grades ==
    { [score |-> s, penalties |-> pens, components |-> comps] :
        s \in Scores,
        pens \in PenaltyLists,
        comps \in ComponentLists }

\* ------------------------------------------------------------------------
\* ConfigDictMixin (zucchini/utils.py)
\* ------------------------------------------------------------------------
\* obj.to_config_dict(): the attributes that are not None, by name
ConfigDict_to_config_dict(obj) ==
    [k \in { a \in DOMAIN obj : obj[a] # None } |-> obj[k][1]]

\* the keyword argument a mapping supplies for a parameter (None by default)
Kwarg(mapping, key) == IF key \in DOMAIN mapping THEN mapping[key] ELSE None

\* ------------------------------------------------------------------------
\* GradescopeAutograderTestOutput
\* ------------------------------------------------------------------------
TestOutput_init(name, score, max_score, output) ==
    [score     |-> IF score # None THEN Some(float(score[1])) ELSE None,
     max_score |-> IF max_score # None THEN Some(float(max_score[1])) ELSE None,
     output    |-> output]

TestOutput_from_config_dict(test) ==
    TestOutput_init(Kwarg(test, "name"), Kwarg(test, "score"),
                    Kwarg(test, "max_score"), Kwarg(test, "output"))

\* ------------------------------------------------------------------------
\* GradescopeAutograderOutput
\* ------------------------------------------------------------------------
Output_init(score, tests, extra_data) ==
    [score      |-> score,
     tests      |-> IF tests # None
                    THEN Some([i \in DOMAIN tests[1] |->
                                 TestOutput_from_config_dict(tests[1][i])])
                    ELSE None,
     extra_data |-> extra_data]

to_config_dict(doc) ==
    LET dict_ == ConfigDict_to_config_dict(doc)
    IN  IF "tests" \in DOMAIN dict_ /\ dict_["tests"] # << >>
        THEN [dict_ EXCEPT !["tests"] =
                 [i \in DOMAIN dict_["tests"] |->
                     ConfigDict_to_config_dict(dict_["tests"][i])]]
        ELSE dict_

\* grade.score() and grade.serialized_component_grades()
Grade_score(g) == g.score

serialized_component_grades(g) ==
    [i \in DOMAIN g.components |->
        [name |-> g.components[i].name, parts |-> Len(g.components[i].parts)]]

RECURSIVE Join(_, _)
\* sep.join(strs)
Join(sep, strs) ==
    IF strs = << >> THEN ""
    ELSE IF Len(strs) = 1 THEN strs[1]
    ELSE strs[1] \o sep \o Join(sep, Tail(strs))

\* variant: the prefix ends with a single newline
DeductionsPrefix_one_newline(part) ==
    IF part.deductions # << >>
    THEN "Deductions: " \o Join(", ", part.deductions) \o "\n"
    ELSE ""

DeductionsPrefix(part) ==
    IF part.deductions # << >>
    THEN "Deductions: " \o Join(", ", part.deductions) \o "\n\n"
    ELSE ""

PenaltyTest(penalty) ==
    TestOutput_init(Some(penalty.name), Some(to_float(penalty.points_delta)),
                    None, None)

PartTest(component, part) ==
    TestOutput_init(Some(component.name \o ": " \o part.name),
                    Some(to_float(part.points_got)),
                    Some(to_float(part.points_possible)),
                    Some(DeductionsPrefix(part) \o part.log))

RECURSIVE PenaltyTests(_, _)
\* variant: the loop without the points_delta != 0 test
PenaltyTests_keep_zero(penalties, tests) ==
    IF penalties = << >> THEN tests
    ELSE PenaltyTests(Tail(penalties), Append(tests, PenaltyTest(Head(penalties))))

\* the loop over computed_grade.penalties, appending to tests
PenaltyTests(penalties, tests) ==
    IF penalties = << >> THEN tests
    ELSE PenaltyTests(Tail(penalties),
                      IF Head(penalties).points_delta.num # 0
                      THEN Append(tests, PenaltyTest(Head(penalties)))
                      ELSE tests)

RECURSIVE PartTests(_, _, _)
\* variant: a part with full marks and no deductions is not reported
PartTests_skip_perfect(component, parts, tests) ==
    IF parts = << >> THEN tests
    ELSE PartTests(component, Tail(parts),
                   IF /\ Head(parts).points_got = Head(parts).points_possible
                      /\ Head(parts).deductions = << >>
                   THEN tests
                   ELSE Append(tests, PartTest(component, Head(parts))))

\* the inner loop over component.parts, appending to tests
PartTests(component, parts, tests) ==
    IF parts = << >> THEN tests
    ELSE PartTests(component, Tail(parts),
                   Append(tests, PartTest(component, Head(parts))))

RECURSIVE ComponentTests(_, _)
\* the outer loop over computed_grade.components
ComponentTests(components, tests) ==
    IF components = << >> THEN tests
    ELSE ComponentTests(Tail(components),
                        PartTests(Head(components), Head(components).parts, tests))

\* variant: the two loops in the other order
from_grade_parts_first(g) ==
    LET score      == Grade_score(g)
        extra_data == serialized_component_grades(g)
        tests      == PenaltyTests(g.penalties,
                                   ComponentTests(g.components, << >>))
    IN  Output_init(Some(score), Some(tests), Some(extra_data))

from_grade(g) ==
    LET score      == Grade_score(g)
        extra_data == serialized_component_grades(g)
        tests      == ComponentTests(g.components,
                                     PenaltyTests(g.penalties, << >>))
    IN  Output_init(Some(score), Some(tests), Some(extra_data))

\* ------------------------------------------------------------------------
\* GradescopeAutograderZip
\* ------------------------------------------------------------------------
SETUP_SH ==
    "#!/bin/bash\nset -e\n\napt-get update\napt-get install -y python3 python3-pip\npip3 install zucchini\n"

RUN_AUTOGRADER ==
    "#!/bin/bash\nset -e\nset -o pipefail\n\ncd /autograder/source\nzucc grade-submission /autograder/submission \\\n    | zucc gradescope bridge /autograder/submission_metadata.json \\\n    > /autograder/results/results.json\n"

\* zucchini/constants.py
ASSIGNMENT_CONFIG_FILE == << "zucchini-assignment.yml" >>

ASSIGNMENT_FILES_DIRECTORY == << "grading-files" >>

\* self.path
ProjectPath == << "project" >>

IsPrefix(a, b) == Len(a) <= Len(b) /\ SubSeq(b, 1, Len(a)) = a

RECURSIVE CommonPrefixLen(_, _)
CommonPrefixLen(a, b) ==
    IF a = << >> \/ b = << >> \/ Head(a) # Head(b) THEN 0
    ELSE 1 + CommonPrefixLen(Tail(a), Tail(b))

\* os.path.relpath(abspath, start)
relpath(abspath, start) ==
    LET c == CommonPrefixLen(abspath, start)
    IN  [i \in 1..(Len(start) - c) |-> ".."] \o SubSeq(abspath, c + 1, Len(abspath))

_relative_path(abspath) == relpath(abspath, ProjectPath)

_real_path(rel) == ProjectPath \o rel

\* the files a project may hold, by absolute path
ConfigPath == _real_path(ASSIGNMENT_CONFIG_FILE)

FilesDir == _real_path(ASSIGNMENT_FILES_DIRECTORY)

GradingFiles ==
    { FilesDir \o << "c.txt" >>,
      FilesDir \o << "a", "b.txt" >>,
      FilesDir \o << "a", "d.txt" >> }

FilePool == { ConfigPath } \cup GradingFiles

NoFile == [exists |-> FALSE, readable |-> FALSE, data |-> ""]

FileStates ==
    { NoFile,
      [exists |-> TRUE, readable |-> TRUE,  data |-> "x"],
      [exists |-> TRUE, readable |-> TRUE,  data |-> "y"],
      [exists |-> TRUE, readable |-> FALSE, data |-> "x"] }

\* a project: its files, and whether the assignment-files directory exists
Projects ==
    { p \in [files : [FilePool -> FileStates], dir : BOOLEAN] :
        (\E f \in GradingFiles : p.files[f].exists) => p.dir }

\* the file at the destination path: none, some other file, an earlier archive
NoDest == [exists |-> FALSE, zip |-> FALSE, entries |-> << >>]

Destinations ==
    { NoDest,
      [exists |-> TRUE, zip |-> FALSE, entries |-> << >>],
      [exists |-> TRUE, zip |-> TRUE,
       entries |-> << [name |-> << "run_autograder" >>, data |-> "old"] >>] }

\* the names a directory listing may return, and the orders it may return them in
EntryNames ==
    UNION { Range(SubSeq(f, Len(FilesDir) + 1, Len(f))) : f \in GradingFiles }

ListingOrders ==
    { o \in [1..Cardinality(EntryNames) -> EntryNames] :
        \A i, j \in DOMAIN o : o[i] = o[j] => i = j }

\* the names of the set S in the order the listing gives them
RECURSIVE Listed(_, _)
Listed(order, S) ==
    IF order = << >> THEN << >>
    ELSE IF Head(order) \in S THEN << Head(order) >> \o Listed(Tail(order), S)
         ELSE Listed(Tail(order), S)

\* the ZipFile being written: its entries so far, and whether a write raised
NewZip == [entries |-> << >>, error |-> FALSE]

\* zipfile.write(real_path, file_path): raises OSError when the file cannot
\* be opened; once an exception is raised nothing more of the body runs
_write_file(p, file_path, zipfile) ==
    LET real_path == _real_path(file_path)
        file == IF real_path \in FilePool THEN p.files[real_path] ELSE NoFile
    IN  IF zipfile.error THEN zipfile
        ELSE IF file.exists /\ file.readable
             THEN [zipfile EXCEPT !.entries =
                      Append(@, [name |-> file_path, data |-> file.data])]
             ELSE [zipfile EXCEPT !.error = TRUE]

_write_string(string, path, zipfile) ==
    IF zipfile.error THEN zipfile
    ELSE [zipfile EXCEPT !.entries = Append(@, [name |-> path, data |-> string])]

\* the file names and the sub-directory names os.walk finds in dirpath
FileNamesIn(p, dirpath) ==
    { f[Len(f)] : f \in { g \in GradingFiles :
        p.files[g].exists /\ IsPrefix(dirpath, g) /\ Len(g) = Len(dirpath) + 1 } }

DirNamesIn(p, dirpath) ==
    { f[Len(dirpath) + 1] : f \in { g \in GradingFiles :
        p.files[g].exists /\ IsPrefix(dirpath, g) /\ Len(g) > Len(dirpath) + 1 } }

RECURSIVE WriteFiles(_, _, _, _)
\* for filename in filenames: self._write_file(relpath, zipfile)
WriteFiles(p, dirpath, filenames, zipfile) ==
    IF filenames = << >> THEN zipfile
    ELSE WriteFiles(p, dirpath, Tail(filenames),
                    _write_file(p, _relative_path(dirpath \o << Head(filenames) >>),
                                zipfile))

RECURSIVE Walk(_, _, _, _)
RECURSIVE WalkDirs(_, _, _, _, _)
\* os.walk(dirpath), top-down: the files of dirpath, then each sub-directory
Walk(p, dirpath, order, zipfile) ==
    WalkDirs(p, dirpath, Listed(order, DirNamesIn(p, dirpath)), order,
             WriteFiles(p, dirpath, Listed(order, FileNamesIn(p, dirpath)), zipfile))

WalkDirs(p, dirpath, dirnames, order, zipfile) ==
    IF dirnames = << >> THEN zipfile
    ELSE WalkDirs(p, dirpath, Tail(dirnames), order,
                  Walk(p, dirpath \o << Head(dirnames) >>, order, zipfile))

\* variant: only the files directly in the directory
write_dir_top_only(p, dir_path, order, zipfile) ==
    LET real_path == _real_path(dir_path)
    IN  WriteFiles(p, real_path, Listed(order, FileNamesIn(p, real_path)), zipfile)

_write_dir(p, dir_path, order, zipfile) ==
    LET real_path == _real_path(dir_path)
    IN  Walk(p, real_path, order, zipfile)

\* os.path.exists(grading_files)
exists(p, path) ==
    \/ path = FilesDir /\ p.dir
    \/ path \in FilePool /\ p.files[path].exists

\* variant: the entrypoint script is not written
write_zip_no_entrypoint(p, order) ==
    LET z1 == _write_file(p, ASSIGNMENT_CONFIG_FILE, NewZip)
        grading_files == _real_path(ASSIGNMENT_FILES_DIRECTORY)
        z2 == IF ~z1.error /\ exists(p, grading_files)
              THEN _write_dir(p, ASSIGNMENT_FILES_DIRECTORY, order, z1)
              ELSE z1
    IN  _write_string(SETUP_SH, << "setup.sh" >>, z2)

\* the body of the with statement of write_zip
write_zip(p, order) ==
    LET z1 == _write_file(p, ASSIGNMENT_CONFIG_FILE, NewZip)
        grading_files == _real_path(ASSIGNMENT_FILES_DIRECTORY)
        z2 == IF ~z1.error /\ exists(p, grading_files)
              THEN _write_dir(p, ASSIGNMENT_FILES_DIRECTORY, order, z1)
              ELSE z1
        z3 == _write_string(SETUP_SH, << "setup.sh" >>, z2)
    IN  _write_string(RUN_AUTOGRADER, << "run_autograder" >>, z3)

\* ZipFile(file, 'w') truncates the destination when it is opened; leaving the
\* with statement, normally or by an exception, closes the archive, which
\* writes the directory of the entries added so far.
ZipInit ==
    /\ fs \in Projects
    /\ dest \in Destinations
    /\ zip_result = "idle"

WriteZip ==
    /\ zip_result = "idle"
    /\ \E order \in ListingOrders :
          LET zipfile == write_zip(fs, order)
          IN  /\ dest' = [exists |-> TRUE, zip |-> TRUE, entries |-> zipfile.entries]
              /\ zip_result' = IF zipfile.error THEN "IOError" ELSE "ok"
    /\ UNCHANGED << fs, gradeVars, metaVars >>

\* ------------------------------------------------------------------------
\* GradescopeMetadata
\* ------------------------------------------------------------------------
\* JSON values: a number, a string (its characters), or null
JInt(n) == [type |-> "int", int |-> n, str |-> << >>]

JStr(s) == [type |-> "str", int |-> 0, str |-> s]

JNull == [type |-> "null", int |-> 0, str |-> << >>]

\* the result of a call: a value, or the exception it raised
Returned(v) == [error |-> "ok", value |-> Some(v)]

Raised(e) == [error |-> e, value |-> None]

Digits == << "0", "1", "2", "3", "4", "5", "6", "7", "8", "9" >>

DigitValue(c) == (CHOOSE i \in DOMAIN Digits : Digits[i] = c) - 1

RECURSIVE ParseDigits(_, _)
ParseDigits(s, acc) ==
    IF s = << >> THEN acc
    ELSE ParseDigits(Tail(s), 10 * acc + DigitValue(Head(s)))

\* int(x)
int(x) ==
    CASE x.type = "int"  -> Returned(x.int)
      [] x.type = "null" -> Raised("TypeError")
      [] x.type = "str"  ->
            IF x.str # << >> /\ \A i \in DOMAIN x.str : x.str[i] \in Range(Digits)
            THEN Returned(ParseDigits(x.str, 0))
            ELSE Raised("ValueError")

\* utils.datetime_from_string: the platform's timestamp format
Timestamps == << << "2021", "-", "01", "-", "01", "T", "00", ":", "00", ":", "00", "Z" >> >>

datetime_from_string(x) ==
    IF x.type = "str" /\ x.str \in Range(Timestamps)
    THEN Returned([datetime |-> CHOOSE i \in DOMAIN Timestamps : Timestamps[i] = x.str])
    ELSE Raised("SchemaError")

_ATTRS == << "id", "created_at", "assignment_id" >>

Coerce(attr, x) == IF attr = "created_at" THEN datetime_from_string(x) ELSE int(x)

RECURSIVE SetAttrs(_, _, _)
\* for attr, type_ in self._ATTRS.items(): setattr(self, attr, type_(json_dict[attr]))
SetAttrs(attrs, d, self) ==
    IF attrs = << >> THEN Returned(self)
    ELSE LET attr == Head(attrs)
         IN  IF attr \notin DOMAIN d THEN Raised("KeyError")
             ELSE LET r == Coerce(attr, d[attr])
                  IN  IF r.error # "ok" THEN Raised(r.error)
                      ELSE SetAttrs(Tail(attrs), d,
                                    [a \in DOMAIN self \cup { attr } |->
                                        IF a = attr THEN r.value[1] ELSE self[a]])

RECURSIVE SetAttrs_get(_, _, _)
\* variant: json_dict.get(attr), a missing key leaves the attribute None
SetAttrs_get(attrs, d, self) ==
    IF attrs = << >> THEN Returned(self)
    ELSE LET attr == Head(attrs)
             r == IF attr \in DOMAIN d THEN Coerce(attr, d[attr]) ELSE Returned(None)
         IN  IF r.error # "ok" THEN Raised(r.error)
             ELSE SetAttrs_get(Tail(attrs), d,
                               [a \in DOMAIN self \cup { attr } |->
                                   IF a = attr THEN r.value[1] ELSE self[a]])

Metadata_init_get(d) == SetAttrs_get(_ATTRS, d, << >>)

Metadata_init(d) == SetAttrs(_ATTRS, d, << >>)

\* the metadata files: each required key absent or holding one of a few
\* values, with or without a key the parser does not know
IdValues == { JInt(42), JStr(<< "4", "2" >>), JStr(<< "4", "x" >>), JNull }

CreatedValues ==
    { JStr(Timestamps[1]), JStr(<< "yesterday" >>) }

AssignmentValues == { JInt(7), JStr(<< "0", "7" >>), JStr(<< >>) }

ExtraKey == "submission_method"

ValuesOf(k) ==
    CASE k = "id" -> IdValues
      [] k = "created_at" -> CreatedValues
      [] k = "assignment_id" -> AssignmentValues
      [] k = ExtraKey -> { JStr(<< "upload" >>) }

JsonDicts ==
    UNION { { d \in [K -> UNION { ValuesOf(k) : k \in K }] :
                \A k \in K : d[k] \in ValuesOf(k) } :
            K \in SUBSET (Range(_ATTRS) \cup { ExtraKey }) }

MetaInit ==
    /\ json_dict \in JsonDicts
    /\ metadata = None
    /\ meta_error = "idle"

Construct ==
    /\ meta_error = "idle"
    /\ LET r == Metadata_init(json_dict)
       IN  /\ metadata' = r.value
           /\ meta_error' = r.error
    /\ UNCHANGED << json_dict, gradeVars, zipVars >>

\* ------------------------------------------------------------------------
\* The bridge: flatten one grade, then encode the document
\* ------------------------------------------------------------------------
GradeInit ==
    /\ grade \in Grades
    /\ gs_output = None
    /\ config_dict = None

FromGrade ==
    /\ gs_output = None
    /\ gs_output' = Some(from_grade(grade))
    /\ UNCHANGED << grade, config_dict, zipVars, metaVars >>

ToJsonStream ==
    /\ gs_output # None
    /\ config_dict = None
    /\ config_dict' = Some(to_config_dict(gs_output[1]))
    /\ UNCHANGED << grade, gs_output, zipVars, metaVars >>

ZipIdle ==
    /\ fs = [files |-> [f \in FilePool |-> NoFile], dir |-> FALSE]
    /\ dest = NoDest
    /\ zip_result = "idle"

MetaIdle == json_dict = << >> /\ metadata = None /\ meta_error = "idle"

InitGrade == GradeInit /\ ZipIdle /\ MetaIdle

NextGrade == FromGrade \/ ToJsonStream

SpecGrade == InitGrade /\ [][NextGrade]_vars

GradeIdle == grade \in { g \in Grades : g.penalties = << >> /\ g.components = << >> }
             /\ gs_output = None /\ config_dict = None

InitZip == ZipInit /\ GradeIdle /\ MetaIdle

NextZip == WriteZip

SpecZip == InitZip /\ [][NextZip]_vars

InitMeta == MetaInit /\ GradeIdle /\ ZipIdle

NextMeta == Construct

SpecMeta == InitMeta /\ [][NextMeta]_vars

\* ------------------------------------------------------------------------
\* Properties of from_grade and to_config_dict
\* ------------------------------------------------------------------------
Flattened == gs_output # None

Tests == gs_output[1].tests[1]

\* the indices of the penalties whose delta is not zero, in source order
NonZero ==
    SelectSeqIdx(Len(grade.penalties),
                 { i \in DOMAIN grade.penalties :
                     grade.penalties[i].points_delta.num # 0 })

RECURSIVE PartsBefore(_)
\* the number of parts in the components before component c
PartsBefore(c) ==
    IF c = 1 THEN 0
    ELSE PartsBefore(c - 1) + Len(grade.components[c - 1].parts)

TotalParts == PartsBefore(Len(grade.components) + 1)

\* the position in the line-item sequence claimed for part p of component c
PartPos(c, p) == Len(NonZero) + PartsBefore(c) + p

PartIndices ==
    UNION { { << c, p >> : p \in DOMAIN grade.components[c].parts } :
              c \in DOMAIN grade.components }

\* the float f is the value of the Fraction x
SameValue(f, x) == f * x.den = FloatUnit * x.num

IsPenaltyItem(t) == t.max_score = None

IsPartItem(t) == t.max_score # None

\* C1: the line items of the document from_grade returns are the non-zero
\* penalties in source order, then the parts in component order and part order
\* within a component; no part item precedes a penalty item.
C1_PenaltiesThenParts ==
    Flattened =>
        /\ Len(Tests) = Len(NonZero) + TotalParts
        /\ \A j \in DOMAIN NonZero :
              /\ IsPenaltyItem(Tests[j])
              /\ Tests[j].score # None
              /\ SameValue(Tests[j].score[1], grade.penalties[NonZero[j]].points_delta)
        /\ \A cp \in PartIndices :
              LET part == grade.components[cp[1]].parts[cp[2]]
                  t    == Tests[PartPos(cp[1], cp[2])]
              IN  /\ IsPartItem(t)
                  /\ t.score # None
                  /\ SameValue(t.score[1], part.points_got)
                  /\ SameValue(t.max_score[1], part.points_possible)
        /\ \A i, j \in DOMAIN Tests :
              (IsPartItem(Tests[i]) /\ IsPenaltyItem(Tests[j])) => j < i

C1_Witness ==
    /\ Flattened
    /\ Len(NonZero) = 2
    /\ Len(grade.components) = 2
    /\ \A c \in DOMAIN grade.components : Len(grade.components[c].parts) = 2

\* C2: a penalty whose delta is zero produces no line item; a penalty whose
\* delta is not zero produces exactly one, with that delta as score and with
\* neither max_score nor output.
C2_PenaltyFiltering ==
    Flattened =>
        LET items == { i \in DOMAIN Tests : IsPenaltyItem(Tests[i]) }
            nz    == { i \in DOMAIN grade.penalties :
                         grade.penalties[i].points_delta.num # 0 }
        IN  /\ Cardinality(items) = Cardinality(nz)
            /\ \A i \in items :
                  /\ Tests[i].output = None
                  /\ Tests[i].score # None
                  /\ Tests[i].score[1] # 0
                  /\ "max_score" \notin DOMAIN ConfigDict_to_config_dict(Tests[i])
                  /\ "output" \notin DOMAIN ConfigDict_to_config_dict(Tests[i])
            /\ \A n \in nz :
                  Cardinality({ i \in items :
                      SameValue(Tests[i].score[1], grade.penalties[n].points_delta) })
                  = Cardinality({ m \in nz :
                      grade.penalties[m].points_delta = grade.penalties[n].points_delta })

C2_Witness ==
    /\ Flattened
    /\ \E i, j \in DOMAIN grade.penalties :
          /\ grade.penalties[i].points_delta.num = 0
          /\ grade.penalties[j].points_delta.num # 0

\* C3 (as claimed): every line item carries a name, penalty.name for a penalty
\* and "<component.name>: <part.name>" for a part, on the stored item and in
\* its encoded form.
C3_ItemsAreNamed ==
    Flattened =>
        /\ \A j \in DOMAIN NonZero :
              /\ Kwarg(Tests[j], "name") = Some(grade.penalties[NonZero[j]].name)
              /\ "name" \in DOMAIN ConfigDict_to_config_dict(Tests[j])
        /\ \A cp \in PartIndices :
              LET component == grade.components[cp[1]]
                  t         == Tests[PartPos(cp[1], cp[2])]
              IN  /\ Kwarg(t, "name")
                       = Some(component.name \o ": " \o component.parts[cp[2]].name)
                  /\ "name" \in DOMAIN ConfigDict_to_config_dict(t)

\* C4 (as claimed): a document whose line-item sequence is empty encodes with
\* no "tests" key.
C4_EmptyTestsOmitted ==
    (config_dict # None /\ gs_output[1].tests = Some(<< >>)) =>
        "tests" \notin DOMAIN config_dict[1]

\* the rendering of a deduction list, written out for each length
Rendered(d) ==
    CASE Len(d) = 1 -> "Deductions: " \o d[1] \o "\n\n"
      [] Len(d) = 2 -> "Deductions: " \o d[1] \o ", " \o d[2] \o "\n\n"
      [] Len(d) = 3 -> "Deductions: " \o d[1] \o ", " \o d[2] \o ", " \o d[3] \o "\n\n"

\* C8: the output of a part's line item is the part's log, prefixed by
\* "Deductions: " + the deductions joined with ", " + two newlines when there
\* are deductions; with no deductions it is exactly the log, and the empty
\* string (not None) when the log is empty too.
C8_DeductionRendering ==
    Flattened =>
        \A cp \in PartIndices :
            LET part == grade.components[cp[1]].parts[cp[2]]
                t    == Tests[PartPos(cp[1], cp[2])]
            IN  /\ t.output # None
                /\ part.deductions = << >> => t.output[1] = part.log
                /\ part.deductions # << >> =>
                      t.output[1] = Rendered(part.deductions) \o part.log
                /\ (part.deductions = << "late -10%", "missing docstring" >>
                        /\ part.log = "ok") =>
                      t.output[1] = "Deductions: late -10%, missing docstring\n\nok"
                /\ (part.deductions = << >> /\ part.log = "") => t.output = Some("")

C8_Witness ==
    /\ Flattened
    /\ \E cp \in PartIndices, cq \in PartIndices :
          /\ Len(grade.components[cp[1]].parts[cp[2]].deductions) = 2
          /\ grade.components[cq[1]].parts[cq[2]].deductions = << >>
          /\ grade.components[cq[1]].parts[cq[2]].log = ""
          /\ Tests[PartPos(cq[1], cq[2])].output = Some("")

\* C9: there are as many part-derived line items as parts in all components;
\* a part is reported even with full marks and no deductions, with
\* score = points_got and max_score = points_possible.
C9_PartCoverage ==
    Flattened =>
        /\ Cardinality({ i \in DOMAIN Tests : IsPartItem(Tests[i]) })
             = Cardinality(PartIndices)
        /\ \A cp \in PartIndices :
              LET part == grade.components[cp[1]].parts[cp[2]]
              IN  \E i \in DOMAIN Tests :
                     /\ IsPartItem(Tests[i])
                     /\ Tests[i].score = Some(to_float(part.points_got))
                     /\ Tests[i].max_score = Some(to_float(part.points_possible))

C9_Witness ==
    /\ Flattened
    /\ \E cp \in PartIndices :
          LET part == grade.components[cp[1]].parts[cp[2]]
          IN  /\ part.points_got = part.points_possible
              /\ part.deductions = << >>
              /\ IsPartItem(Tests[PartPos(cp[1], cp[2])])

\* ------------------------------------------------------------------------
\* Properties of write_zip
\* ------------------------------------------------------------------------
Archive == dest.entries

HasEntry(name, data) ==
    \E i \in DOMAIN Archive : Archive[i] = [name |-> name, data |-> data]

\* C5 (as claimed): a write_zip that fails leaves the destination as it was,
\* never an archive holding part of the required entries.
C5_FailureLeavesDestination ==
    [][zip_result' = "IOError" => dest' = dest]_vars

\* C6: after a successful write_zip on a project whose assignment-files
\* directory exists, the archive holds the config file at its relative path,
\* every file under the directory at its path relative to the project root
\* with the file's content, setup.sh with the SETUP_SH text and run_autograder
\* with the RUN_AUTOGRADER text.
C6_ArchiveComplete ==
    (zip_result = "ok" /\ fs.dir) =>
        /\ dest.exists /\ dest.zip
        /\ HasEntry(<< "zucchini-assignment.yml" >>, fs.files[ConfigPath].data)
        /\ \A f \in GradingFiles :
              fs.files[f].exists =>
                  HasEntry(SubSeq(f, Len(ProjectPath) + 1, Len(f)), fs.files[f].data)
        /\ HasEntry(<< "grading-files", "a", "b.txt" >>,
                    fs.files[ProjectPath \o << "grading-files", "a", "b.txt" >>].data)
              \/ ~fs.files[ProjectPath \o << "grading-files", "a", "b.txt" >>].exists
        /\ HasEntry(<< "setup.sh" >>, SETUP_SH)
        /\ HasEntry(<< "run_autograder" >>, RUN_AUTOGRADER)

C6_Witness ==
    /\ zip_result = "ok"
    /\ fs.dir
    /\ \A f \in GradingFiles : fs.files[f].exists
    /\ Len(Archive) = 6

\* C7: with no assignment-files directory write_zip still succeeds, and the
\* archive holds exactly three entries: the config file, setup.sh and
\* run_autograder.
C7_NoFilesDirectory ==
    (zip_result # "idle" /\ ~fs.dir
        /\ fs.files[ConfigPath].exists /\ fs.files[ConfigPath].readable) =>
        /\ zip_result = "ok"
        /\ Len(Archive) = 3
        /\ { Archive[i].name : i \in DOMAIN Archive }
             = { ASSIGNMENT_CONFIG_FILE, << "setup.sh" >>, << "run_autograder" >> }
        /\ HasEntry(ASSIGNMENT_CONFIG_FILE, fs.files[ConfigPath].data)

C7_Witness ==
    /\ zip_result = "ok"
    /\ ~fs.dir
    /\ Len(Archive) = 3

\* ------------------------------------------------------------------------
\* Properties of GradescopeMetadata
\* ------------------------------------------------------------------------
Constructed == meta_error # "idle"

MissingKey == \E k \in Range(_ATTRS) : k \notin DOMAIN json_dict

WellFormed(k) ==
    \/ k = "id" /\ json_dict[k] \in { JInt(42), JStr(<< "4", "2" >>) }
    \/ k = "created_at" /\ json_dict[k] = JStr(Timestamps[1])
    \/ k = "assignment_id" /\ json_dict[k] \in { JInt(7), JStr(<< "0", "7" >>) }

=============================================================================
